---- MODULE Spec2Model ----
(***************************************************************************)
(* Model of the rfc7807 package (src/rfc7807.go): a registry of problem    *)
(* titles, each bound to a documentation page served by the mux and to a   *)
(* closure that writes an application/problem+json response.               *)
(*                                                                         *)
(* A Go string or []byte is a sequence of fragments.  A fragment is either *)
(* one character that matters to URL escaping or path cleaning (" ", "%",  *)
(* "/", ":", "?", a hexadecimal digit) or a run of other characters        *)
(* ("example", ".html", "no such user").                                   *)
(***************************************************************************)
EXTENDS Integers, Sequences, FiniteSets, TLC

VARIABLES
    URL,              \* RFC7807.URL, the base URL given to New
    mux,              \* RFC7807.mux: route pattern -> page served
    problemHandlers,  \* RFC7807.problemHandlers: title -> closure
    w,                \* the http.ResponseWriter of each goroutine's request
    call,             \* each goroutine's request: arguments and position
    reg,              \* the last registration call and its result
    hist,             \* record of the registrations made: what each title's
                      \* last registration computed and last page was
    serving           \* TRUE once setup is over and requests run concurrently

vars == <<URL, mux, problemHandlers, w, call, reg, hist, serving>>

----------------------------------------------------------------------------
(* Bounds of the model.                                                    *)

\* registration calls made during one run
MaxRegs == 2
\* length of the extension list of one Error call
MaxExts == 2
\* registration calls made before the Error calls with long extension lists
MaxRegsDispatch == 1
\* registration calls made before concurrent requests are served
MaxRegsConc == 1

----------------------------------------------------------------------------
(* Characters.                                                             *)

HexDigits == {"0", "2", "3", "5", "F"}

----------------------------------------------------------------------------
(* net/url: escaping, as HtmlDoc uses it through url.PathEscape,           *)
(* url.Parse and URL.String.                                               *)

\* url.shouldEscape for the modes encodePathSegment and encodePath
shouldEscape(c, mode) ==
    CASE c \in {" ", "%"} -> TRUE
      [] c = "/" -> mode = "encodePathSegment"
      [] c = "?" -> TRUE
      [] OTHER -> FALSE

\* the "%XX" form of one character
escapeChar(c) ==
    CASE c = " " -> <<"%", "2", "0">>
      [] c = "%" -> <<"%", "2", "5">>
      [] c = "/" -> <<"%", "2", "F">>
      [] c = "?" -> <<"%", "3", "F">>

RECURSIVE escape(_, _)
escape(s, mode) ==
    IF s = <<>> THEN <<>>
    ELSE (IF shouldEscape(Head(s), mode) THEN escapeChar(Head(s)) ELSE <<Head(s)>>)
         \o escape(Tail(s), mode)

\* the character a "%XX" triple stands for
unhexPair(h1, h2) ==
    CASE <<h1, h2>> = <<"2", "0">> -> " "
      [] <<h1, h2>> = <<"2", "5">> -> "%"
      [] <<h1, h2>> = <<"2", "F">> -> "/"
      [] <<h1, h2>> = <<"3", "F">> -> "?"
      [] OTHER -> "\\x" \o h1 \o h2

RECURSIVE unescape(_)
\* url.unescape in mode encodePath: [ok |-> FALSE] is EscapeError
unescape(s) ==
    IF s = <<>> THEN [ok |-> TRUE, s |-> <<>>]
    ELSE IF Head(s) = "%"
         THEN IF Len(s) >= 3 /\ s[2] \in HexDigits /\ s[3] \in HexDigits
              THEN LET rest == unescape(SubSeq(s, 4, Len(s)))
                   IN  [ok |-> rest.ok, s |-> <<unhexPair(s[2], s[3])>> \o rest.s]
              ELSE [ok |-> FALSE, s |-> <<>>]
         ELSE LET rest == unescape(Tail(s))
              IN  [ok |-> rest.ok, s |-> <<Head(s)>> \o rest.s]

PathEscape(s) == escape(s, "encodePathSegment")

----------------------------------------------------------------------------
(* net/url: url.Parse and URL.String, as HtmlDoc calls them on the base    *)
(* URL.  Raw URLs carry no query, fragment or userinfo part.               *)

SpecialChars == {" ", "%", "/", ":", "?"}

\* a fragment url.getScheme reads through as a scheme: letters first
IsSchemeFragment(f) == f \notin SpecialChars /\ f \notin HexDigits

RECURSIVE IndexOf(_, _, _)
\* the first position >= i of s holding c, or 0
IndexOf(s, c, i) ==
    IF i > Len(s) THEN 0 ELSE IF s[i] = c THEN i ELSE IndexOf(s, c, i + 1)

Contains(s, c) == IndexOf(s, c, 1) # 0

HasPrefix(s, pre) == Len(s) >= Len(pre) /\ SubSeq(s, 1, Len(pre)) = pre

ParseError == [ok |-> FALSE, Scheme |-> <<>>, Opaque |-> <<>>, Host |-> <<>>,
               Path |-> <<>>, RawPath |-> <<>>]

\* URL.setPath: Path is the unescaped form, RawPath is kept only when the
\* default encoding of Path differs from the raw form
setPath(u, p) ==
    LET un == unescape(p)
    IN  IF ~un.ok THEN ParseError
        ELSE [u EXCEPT !.Path = un.s,
                       !.RawPath = IF escape(un.s, "encodePath") = p THEN <<>> ELSE p]

\* the authority and path of a raw URL whose scheme has been cut off
parseRest(scheme, rest) ==
    LET u0 == [ok |-> TRUE, Scheme |-> scheme, Opaque |-> <<>>, Host |-> <<>>,
               Path |-> <<>>, RawPath |-> <<>>]
        slash == IndexOf(rest, "/", 1)
        firstSeg == IF slash = 0 THEN rest ELSE SubSeq(rest, 1, slash - 1)
    IN  IF ~HasPrefix(rest, <<"/">>) /\ scheme # <<>>
        THEN [u0 EXCEPT !.Opaque = rest]
        ELSE IF ~HasPrefix(rest, <<"/">>) /\ Contains(firstSeg, ":")
        THEN ParseError
        ELSE IF HasPrefix(rest, <<"/", "/">>)
        THEN LET after == SubSeq(rest, 3, Len(rest))
                 cut == IndexOf(after, "/", 1)
                 authority == IF cut = 0 THEN after ELSE SubSeq(after, 1, cut - 1)
                 path == IF cut = 0 THEN <<>> ELSE SubSeq(after, cut, Len(after))
             IN  IF Contains(authority, " ") \/ Contains(authority, "%")
                 THEN ParseError
                 ELSE setPath([u0 EXCEPT !.Host = authority], path)
        ELSE setPath(u0, rest)

\* url.Parse: [ok |-> FALSE] stands for the (nil, error) result
Parse(rawURL) ==
    IF rawURL # <<>> /\ rawURL[1] = ":"
    THEN ParseError
    ELSE IF Len(rawURL) >= 2 /\ IsSchemeFragment(rawURL[1]) /\ rawURL[2] = ":"
    THEN parseRest(<<rawURL[1]>>, SubSeq(rawURL, 3, Len(rawURL)))
    ELSE parseRest(<<>>, rawURL)

\* URL.EscapedPath
EscapedPath(u) ==
    IF u.RawPath # <<>> /\ unescape(u.RawPath).ok /\ unescape(u.RawPath).s = u.Path
    THEN u.RawPath
    ELSE escape(u.Path, "encodePath")

\* URL.String
String(u) ==
    LET scheme == IF u.Scheme # <<>> THEN u.Scheme \o <<":">> ELSE <<>>
        path == EscapedPath(u)
        auth == IF u.Scheme # <<>> \/ u.Host # <<>>
                THEN (IF u.Host # <<>> \/ u.Path # <<>> THEN <<"/", "/">> ELSE <<>>)
                     \o u.Host
                ELSE <<>>
        sep == IF path # <<>> /\ path[1] # "/" /\ u.Host # <<>> THEN <<"/">> ELSE <<>>
        pre == scheme \o auth \o sep
        dot == IF pre = <<>> /\ Contains(
                      IF IndexOf(path, "/", 1) = 0 THEN path
                      ELSE SubSeq(path, 1, IndexOf(path, "/", 1) - 1), ":")
               THEN <<".", "/">> ELSE <<>>
    IN  IF u.Opaque # <<>> THEN scheme \o u.Opaque ELSE pre \o dot \o path

----------------------------------------------------------------------------
(* path.Join and path.Clean.                                               *)

RECURSIVE Segments(_)
\* the "/"-separated elements of a path
Segments(s) ==
    LET i == IndexOf(s, "/", 1)
    IN  IF i = 0 THEN <<s>>
        ELSE <<SubSeq(s, 1, i - 1)>> \o Segments(SubSeq(s, i + 1, Len(s)))

RECURSIVE cleanSegments(_, _, _)
\* path.Clean's pass over the elements: drops empty and "." elements and
\* resolves ".." against the elements kept so far
cleanSegments(segs, kept, rooted) ==
    IF segs = <<>> THEN kept
    ELSE LET e == Head(segs)
             next ==
               CASE e = <<>> \/ e = <<".">> -> kept
                 [] e = <<"..">> ->
                      IF kept # <<>> /\ kept[Len(kept)] # <<"..">>
                      THEN SubSeq(kept, 1, Len(kept) - 1)
                      ELSE IF rooted THEN kept ELSE Append(kept, e)
                 [] OTHER -> Append(kept, e)
         IN  cleanSegments(Tail(segs), next, rooted)

RECURSIVE joinSegments(_)
joinSegments(segs) ==
    IF segs = <<>> THEN <<>>
    ELSE IF Len(segs) = 1 THEN segs[1]
    ELSE segs[1] \o <<"/">> \o joinSegments(Tail(segs))

\* path.Clean
Clean(p) ==
    LET rooted == p # <<>> /\ p[1] = "/"
        out == joinSegments(cleanSegments(Segments(p), <<>>, rooted))
    IN  IF p = <<>> THEN <<".">>
        ELSE IF rooted THEN <<"/">> \o out
        ELSE IF out = <<>> THEN <<".">> ELSE out

\* path.Join of two elements: empty elements are ignored
Join(a, b) ==
    IF a = <<>> /\ b = <<>> THEN <<>>
    ELSE IF a = <<>> THEN Clean(b)
    ELSE IF b = <<>> THEN Clean(a)
    ELSE Clean(a \o <<"/">> \o b)

----------------------------------------------------------------------------
(* html/template and blackfriday, as TemplateDoc and MarkdownDoc use them. *)
(* A template source is a sequence of items: a literal fragment or one of  *)
(* the actions below.                                                      *)

ActTitle == "{{.Title}}"
ActDescription == "{{.Description}}"
\* an action that is never closed: Parse fails
ActUnclosed == "{{"
\* a call of a template that is not defined: Parse succeeds, Execute fails
ActNoSuchTemplate == "{{template \"missing\"}}"

DefaultTemplate ==
    << "<html>\n  <head>\n    <meta charset=\"utf-8\">\n    <title>Error ",
       ActTitle,
       "</title>\n  </head>\n  <body>\n    <h1>",
       ActTitle,
       "</h1>\n    <pre>",
       ActDescription,
       "</pre>\n  </body>\n</html>" >>

\* the escaping html/template applies to a value in element content
htmlEscapeChar(c) ==
    CASE c = "<" -> "&lt;"
      [] c = ">" -> "&gt;"
      [] c = "&" -> "&amp;"
      [] c = "\"" -> "&#34;"
      [] c = "'" -> "&#39;"
      [] c = "+" -> "&#43;"
      [] OTHER -> c

htmlEscape(s) == [i \in 1..Len(s) |-> htmlEscapeChar(s[i])]

\* template.New("default.tpl").Parse(templateStr): TRUE when tError == nil
templateParseOk(templateStr) == ~Contains(templateStr, ActUnclosed)

\* template.Execute: TRUE when err == nil
templateExecuteOk(templateStr) == ~Contains(templateStr, ActNoSuchTemplate)

RECURSIVE templateExecute(_, _, _)
\* the bytes template.Execute leaves in buf for {"Title", "Description"}
templateExecute(templateStr, title, description) ==
    IF templateStr = <<>> THEN <<>>
    ELSE (CASE Head(templateStr) = ActTitle -> htmlEscape(title)
            [] Head(templateStr) = ActDescription -> htmlEscape(description)
            [] OTHER -> <<Head(templateStr)>>)
         \o templateExecute(Tail(templateStr), title, description)

\* blackfriday.MarkdownCommon: a paragraph per non-empty input
MarkdownCommon(markdown) ==
    IF markdown = <<>> THEN <<>> ELSE <<"<p>">> \o markdown \o <<"</p>\n">>

\* the page MarkdownDoc builds in buf
markdownPage(title, markdown) ==
    <<"<html>\\n<head>\\n  <meta charset=\"utf-8\">\\n  <title>Error ">>
    \o title
    \o <<"</title>\\n</head>\\n<body>">>
    \o MarkdownCommon(markdown)
    \o <<"</body>\\n</html>">>

----------------------------------------------------------------------------
(* http.ResponseWriter.  header is the handler's header map; sent is the   *)
(* copy of it that WriteHeader commits with the status line: a change made *)
(* to header afterwards is not part of the response.                       *)

NewWriter == [wroteHeader |-> FALSE, status |-> 0, header |-> <<>>,
              sent |-> <<>>, body |-> <<>>]

WriteHeader(rw, code) ==
    IF rw.wroteHeader THEN rw
    ELSE [rw EXCEPT !.wroteHeader = TRUE, !.status = code, !.sent = rw.header]

HeaderSet(rw, key, value) == [rw EXCEPT !.header = (key :> value) @@ rw.header]

StatusOK == 200

Write(rw, bytes) ==
    LET committed == WriteHeader(rw, StatusOK)
    IN  [committed EXCEPT !.body = committed.body \o bytes]

\* http.StatusText for the status codes of the model
StatusText(code) ==
    CASE code = 404 -> <<"Not", " ", "Found">>
      [] code = 200 -> <<"OK">>
      [] OTHER -> <<>>

----------------------------------------------------------------------------
(* encoding/json.  A Go value held in a map[string]interface{} is a pair   *)
(* of its dynamic type and its value.                                      *)

GoString(s) == <<"string", s>>
GoInt(n) == <<"int", n>>

\* the JSON text of one value
jsonValue(v) ==
    IF v[1] = "int" THEN <<ToString(v[2])>> ELSE <<"\"">> \o v[2] \o <<"\"">>

\* the JSON text of an object key
jsonKey(k) == "\"" \o k \o "\""

\* the keys a problem of the model can hold, in the order the encoder sorts them
SortedKeys == <<"detail", "k", "status", "title", "type">>

RECURSIVE jsonMembers(_, _, _)
\* the members of the object from SortedKeys[i] on, indented by two spaces
jsonMembers(problem, i, first) ==
    IF i > Len(SortedKeys) THEN <<>>
    ELSE IF SortedKeys[i] \notin DOMAIN problem THEN jsonMembers(problem, i + 1, first)
    ELSE (IF first THEN <<>> ELSE <<",">>)
         \o <<"\n  ", jsonKey(SortedKeys[i]), ": ">>
         \o jsonValue(problem[SortedKeys[i]])
         \o jsonMembers(problem, i + 1, FALSE)

\* json.Encoder.Encode with SetIndent("", "  "): the object and a newline
jsonEncode(problem) ==
    IF DOMAIN problem = {} THEN <<"{}", "\n">>
    ELSE <<"{">> \o jsonMembers(problem, 1, TRUE) \o <<"\n", "}", "\n">>

Encode(rw, problem) == Write(rw, jsonEncode(problem))

----------------------------------------------------------------------------
(* The registry: RFC7807.mux as the map from route pattern to the page it  *)
(* serves, RFC7807.problemHandlers as the map from title to the closure    *)
(* registered for it (the title and docURL the closure captured).          *)

\* the nil problemHandlerFunc
NoHandler == [registered |-> FALSE, title |-> <<>>, docURL |-> <<>>]

Ext(key, value) == [Key |-> key, Value |-> value]

ProblemJSON == "application/problem+json; charset=utf-8"
TextHTML == "text/html; charset=utf-8"

\* p := fmt.Sprintf("/%s.html", url.PathEscape(title))
docRoute(title) == <<"/">> \o PathEscape(title) \o <<".html">>

\* mux.Get(p, ...): the route at pattern p serves html; a pattern that is
\* already routed gets the new endpoint
muxGet(m, p, html) == (p :> html) @@ m

\* url.Parse(rfc7807.URL), path.Join(url.Path, p), url.String(): the
\* error of Parse is dropped, so a URL that does not parse leaves a nil
\* *url.URL whose Path is then assigned
docURLOf(base, p) ==
    LET u == Parse(base)
    IN  IF ~u.ok THEN [panicked |-> TRUE, docURL |-> <<>>]
        ELSE [panicked |-> FALSE,
              docURL |-> String([u EXCEPT !.Path = Join(u.Path, p)])]

\* storeHandler changed to keep the closure a title already has
storeHandlerKeepFirst(h, title, closure) ==
    IF title \in DOMAIN h THEN h ELSE (title :> closure) @@ h

\* rfc7807.problemHandlers[title] = func(...) {...}
storeHandler(h, title, closure) == (title :> closure) @@ h

\* HtmlDoc: the registry after the call and what the call returns.  A nil
\* and an empty html are both <<>>.  New builds the mux and the map, so the
\* two nil tests of HtmlDoc never fire.  panicked: the call did not return,
\* the route is installed and no closure is stored.
HtmlDoc(base, m, h, title, html) ==
    LET hasPage == html # <<>>
        p == docRoute(title)
        m1 == IF hasPage THEN muxGet(m, p, html) ELSE m
        u == docURLOf(base, p)
    IN  IF hasPage /\ u.panicked
        THEN [mux |-> m1, problemHandlers |-> h, err |-> FALSE, panicked |-> TRUE,
              ret |-> NoHandler]
        ELSE LET closure == [registered |-> TRUE, title |-> title,
                             docURL |-> IF hasPage THEN u.docURL ELSE <<>>]
                 h1 == storeHandler(h, title, closure)
             IN  [mux |-> m1, problemHandlers |-> h1, err |-> FALSE,
                  panicked |-> FALSE, ret |-> h1[title]]

\* MarkdownDoc
MarkdownDoc(base, m, h, title, markdown) ==
    HtmlDoc(base, m, h, title, markdownPage(title, markdown))

\* TemplateDoc changed to hand the buffer to HtmlDoc before it looks at the
\* error of Execute
TemplateDocLateCheck(base, m, h, title, description, templateStr) ==
    IF ~templateParseOk(templateStr)
    THEN [mux |-> m, problemHandlers |-> h, err |-> TRUE, panicked |-> FALSE,
          ret |-> NoHandler]
    ELSE LET r == HtmlDoc(base, m, h, title,
                          templateExecute(templateStr, title, description))
         IN  IF templateExecuteOk(templateStr) THEN r
             ELSE [r EXCEPT !.err = TRUE, !.ret = NoHandler]

\* TemplateDoc: (nil, error) when the template does not parse or execute
TemplateDoc(base, m, h, title, description, templateStr) ==
    IF ~templateParseOk(templateStr) \/ ~templateExecuteOk(templateStr)
    THEN [mux |-> m, problemHandlers |-> h, err |-> TRUE, panicked |-> FALSE,
          ret |-> NoHandler]
    ELSE HtmlDoc(base, m, h, title, templateExecute(templateStr, title, description))

\* Doc
Doc(base, m, h, title, description) ==
    TemplateDoc(base, m, h, title, description, DefaultTemplate)

RECURSIVE mergeExtensions(_, _)
\* for _, extension := range extensions { problem[extension.Key] = extension.Value }
mergeExtensions(problem, extensions) ==
    IF extensions = <<>> THEN problem
    ELSE mergeExtensions((Head(extensions).Key :> Head(extensions).Value) @@ problem,
                         Tail(extensions))

\* closureProblem changed to merge the extensions after the system's keys
closureProblemExtLast(closure, status, detail, extensions) ==
    mergeExtensions(("detail" :> GoString(detail)) @@ ("status" :> GoInt(status))
                    @@ ("title" :> GoString(closure.title))
                    @@ ("type" :> GoString(closure.docURL)),
                    extensions)

\* the problem map a registered closure builds
closureProblem(closure, status, detail, extensions) ==
    LET p0 == mergeExtensions(<<>>, extensions)
        p1 == ("type" :> GoString(closure.docURL)) @@ p0
        p2 == ("title" :> GoString(closure.title)) @@ p1
        p3 == ("status" :> GoInt(status)) @@ p2
    IN  ("detail" :> GoString(detail)) @@ p3

\* the problem map Error builds when no closure is registered for title
fallbackProblem(title, status, detail, extensions) ==
    LET p0 == mergeExtensions(<<>>, extensions)
        t == IF title = <<>> THEN StatusText(status) ELSE title
        p1 == ("title" :> GoString(t)) @@ p0
        p2 == ("status" :> GoInt(status)) @@ p1
    IN  ("detail" :> GoString(detail)) @@ p2

\* handler := rfc7807.problemHandlers[title]
lookupHandler(h, title) == IF title \in DOMAIN h THEN h[title] ELSE NoHandler

\* the problem map of one Error call, by the handler its lookup found
problemOf(handler, title, status, detail, extensions) ==
    IF handler.registered
    THEN closureProblem(handler, status, detail, extensions)
    ELSE fallbackProblem(title, status, detail, extensions)

\* w.WriteHeader(status); w.Header().Set("Content-Type", ...); Encode(problem)
writeProblem(rw, status, problem) ==
    Encode(HeaderSet(WriteHeader(rw, status), "Content-Type", ProblemJSON), problem)

\* Error: the response writer after the call
Error(h, rw, title, status, detail, extensions) ==
    writeProblem(rw, status,
                 problemOf(lookupHandler(h, title), title, status, detail, extensions))

\* the request path the mux routes on, from the request target
routePath(target) ==
    LET u == setPath(ParseError, target)
    IN  IF u.RawPath # <<>> THEN u.RawPath ELSE u.Path

\* ServeHTTP for a GET request: the page handler of the route, or the
\* mux's 404 reply
ServeHTTP(m, rw, target) ==
    IF routePath(target) \in DOMAIN m
    THEN Write(HeaderSet(WriteHeader(rw, StatusOK), "Content-Type", TextHTML),
               m[routePath(target)])
    ELSE Write(WriteHeader(HeaderSet(rw, "Content-Type", "text/plain; charset=utf-8"),
                           404),
               <<"404 page not found\n">>)

----------------------------------------------------------------------------
(* Inputs.                                                                 *)

Titles == { <<>>, <<"Oops">>, <<"Bad", " ", "Input">> }

Bases == { <<"https", ":", "/", "/", "example.com">>,
           <<"https", ":", "/", "/", "example.com", "/", "api", "/">>,
           <<":", "/", "/", "example.com">> }

Pages == { <<>>, <<"<h1>one</h1>">>, <<"<h1>two</h1>">> }

Markdowns == { <<"some text">> }

Descriptions == { <<"bad input">> }

Templates == { <<"<p>", ActTitle, ": ", ActDescription, "</p>">>,
               <<"<p>", ActUnclosed>>,
               <<"<p>", ActNoSuchTemplate, "</p>">> }

Statuses == { 404, 499 }

Details == { <<"no such user">> }

Bogus == GoString(<<"bogus">>)

ExtPool == { Ext("type", Bogus), Ext("title", Bogus), Ext("status", Bogus),
             Ext("detail", Bogus),
             Ext("k", GoString(<<"v1">>)), Ext("k", GoString(<<"v2">>)) }

\* the extension lists of at most n elements
ExtLists(n) == UNION { [1..k -> ExtPool] : k \in 0..n }

\* the extension lists of the Error calls made between registrations
FewExts == { <<>>, <<Ext("type", Bogus)>> }

\* request targets: each title's route, each title's route escaped once
\* more, and a path that no registration routes
Targets == { docRoute(t) : t \in Titles }
           \cup { escape(docRoute(t), "encodePath") : t \in Titles }
           \cup { <<"/", "missing.html">> }

Goroutines == {"g1", "g2"}
\* the goroutine of the sequential program
Main == "g1"

----------------------------------------------------------------------------
(* The state machine.                                                      *)

IdleCall == [op |-> "idle", pc |-> "idle", title |-> <<>>, status |-> 0,
             detail |-> <<>>, exts |-> <<>>, target |-> <<>>,
             handler |-> NoHandler]

\* goroutine g runs no request
Idle(g) == call[g].op = "idle"

AllIdle == \A g \in Goroutines : Idle(g)

\* New(url)
Init ==
    /\ URL \in Bases
    /\ mux = <<>>
    /\ problemHandlers = <<>>
    /\ w = [g \in Goroutines |-> NewWriter]
    /\ call = [g \in Goroutines |-> IdleCall]
    /\ reg = [n |-> 0, op |-> "New", title |-> <<>>, err |-> FALSE,
              panicked |-> FALSE, ret |-> NoHandler, before |-> <<>>]
    /\ hist = [docURL |-> <<>>, page |-> <<>>, first |-> <<>>]
    /\ serving = FALSE

\* a registration call may start: setup is not over, no request is running
CanRegister(max) == reg.n < max /\ ~serving /\ AllIdle

\* the registry and the record after a registration call with result res;
\* html is the page the call handed to HtmlDoc
Registered(op, title, html, res) ==
    /\ mux' = res.mux
    /\ problemHandlers' = res.problemHandlers
    /\ reg' = [n |-> reg.n + 1, op |-> op, title |-> title, err |-> res.err,
               panicked |-> res.panicked, ret |-> res.ret,
               before |-> <<mux, problemHandlers>>]
    /\ hist' = [docURL |-> IF res.err \/ res.panicked THEN hist.docURL
                           ELSE (title :> (IF html = <<>> THEN <<>>
                                           ELSE docURLOf(URL, docRoute(title)).docURL))
                                @@ hist.docURL,
                page |-> IF res.err \/ res.panicked \/ html = <<>> THEN hist.page
                         ELSE (title :> html) @@ hist.page,
                first |-> IF res.err \/ res.panicked \/ title \in DOMAIN hist.first
                          THEN hist.first
                          ELSE (title :> (IF html = <<>> THEN <<>>
                                          ELSE docURLOf(URL, docRoute(title)).docURL))
                               @@ hist.first]
    /\ UNCHANGED <<URL, w, call, serving>>

HtmlDocCall(title, html) ==
    Registered("HtmlDoc", title, html,
               HtmlDoc(URL, mux, problemHandlers, title, html))

MarkdownDocCall(title, markdown) ==
    Registered("MarkdownDoc", title, markdownPage(title, markdown),
               MarkdownDoc(URL, mux, problemHandlers, title, markdown))

TemplateDocCall(title, description, templateStr) ==
    Registered("TemplateDoc", title,
               templateExecute(templateStr, title, description),
               TemplateDoc(URL, mux, problemHandlers, title, description, templateStr))

DocCall(title, description) ==
    Registered("Doc", title, templateExecute(DefaultTemplate, title, description),
               Doc(URL, mux, problemHandlers, title, description))

\* one whole Error call on goroutine g's fresh response writer
ErrorCall(g, title, status, detail, extensions) ==
    /\ Idle(g)
    /\ w' = [w EXCEPT ![g] = Error(problemHandlers, NewWriter, title, status,
                                   detail, extensions)]
    /\ call' = [call EXCEPT ![g] =
                   [IdleCall EXCEPT !.op = "Error", !.pc = "done", !.title = title,
                                    !.status = status, !.detail = detail,
                                    !.exts = extensions,
                                    !.handler = lookupHandler(problemHandlers, title)]]
    /\ UNCHANGED <<URL, mux, problemHandlers, reg, hist, serving>>

\* one whole GET request through ServeHTTP
GetCall(g, target) ==
    /\ Idle(g)
    /\ w' = [w EXCEPT ![g] = ServeHTTP(mux, NewWriter, target)]
    /\ call' = [call EXCEPT ![g] =
                   [IdleCall EXCEPT !.op = "GET", !.pc = "done", !.target = target]]
    /\ UNCHANGED <<URL, mux, problemHandlers, reg, hist, serving>>

\* the request of goroutine g is over: its response has been sent
Finish(g) ==
    /\ call[g].pc = "done"
    /\ w' = [w EXCEPT ![g] = NewWriter]
    /\ call' = [call EXCEPT ![g] = IdleCall]
    /\ UNCHANGED <<URL, mux, problemHandlers, reg, hist, serving>>

\* the sequential program: registrations and requests, one at a time
Next ==
    \/ CanRegister(MaxRegs) /\ \E t \in Titles, html \in Pages : HtmlDocCall(t, html)
    \/ CanRegister(MaxRegs) /\ \E t \in Titles, md \in Markdowns : MarkdownDocCall(t, md)
    \/ CanRegister(MaxRegs) /\ \E t \in Titles, d \in Descriptions, tpl \in Templates :
           TemplateDocCall(t, d, tpl)
    \/ CanRegister(MaxRegs) /\ \E t \in Titles, d \in Descriptions : DocCall(t, d)
    \/ Idle(Main) /\ \E t \in Titles, st \in Statuses, d \in Details, exts \in FewExts :
           ErrorCall(Main, t, st, d, exts)
    \/ Idle(Main) /\ \E target \in Targets : GetCall(Main, target)
    \/ Finish(Main)

Spec == Init /\ [][Next]_vars

\* a short setup, then Error calls for the registered titles with every
\* extension list of up to MaxExts elements
NextDispatch ==
    \/ CanRegister(MaxRegsDispatch)
         /\ \E t \in Titles, html \in Pages : HtmlDocCall(t, html)
    \/ CanRegister(MaxRegsDispatch)
         /\ \E t \in Titles, md \in Markdowns : MarkdownDocCall(t, md)
    \/ CanRegister(MaxRegsDispatch)
         /\ \E t \in Titles, d \in Descriptions, tpl \in Templates :
               TemplateDocCall(t, d, tpl)
    \/ CanRegister(MaxRegsDispatch)
         /\ \E t \in Titles, d \in Descriptions : DocCall(t, d)
    \/ Idle(Main)
         /\ \E t \in DOMAIN problemHandlers, st \in Statuses, d \in Details,
               exts \in ExtLists(MaxExts) : ErrorCall(Main, t, st, d, exts)
    \/ Finish(Main)

SpecDispatch == Init /\ [][NextDispatch]_vars

----------------------------------------------------------------------------
(* Concurrent requests.  Setup registers, then requests are served: each   *)
(* goroutine runs Error on its own response writer, one statement group at *)
(* a time, interleaved with the other goroutines.                          *)

\* setup is over, requests are served from now on
StartServing ==
    /\ ~serving
    /\ serving' = TRUE
    /\ UNCHANGED <<URL, mux, problemHandlers, w, call, reg, hist>>

\* ErrorLookup changed to store a closure for a title that has none
ErrorLookupCaching(g, title, status, detail, extensions) ==
    /\ serving
    /\ Idle(g)
    /\ call' = [call EXCEPT ![g] =
                   [IdleCall EXCEPT !.op = "Error", !.pc = "lookup", !.title = title,
                                    !.status = status, !.detail = detail,
                                    !.exts = extensions,
                                    !.handler = lookupHandler(problemHandlers, title)]]
    /\ w' = [w EXCEPT ![g] = NewWriter]
    /\ problemHandlers' =
          IF title \in DOMAIN problemHandlers THEN problemHandlers
          ELSE storeHandler(problemHandlers, title,
                            [registered |-> TRUE, title |-> title, docURL |-> <<>>])
    /\ UNCHANGED <<URL, mux, reg, hist, serving>>

\* handler := rfc7807.problemHandlers[title]
ErrorLookup(g, title, status, detail, extensions) ==
    /\ serving
    /\ Idle(g)
    /\ call' = [call EXCEPT ![g] =
                   [IdleCall EXCEPT !.op = "Error", !.pc = "lookup", !.title = title,
                                    !.status = status, !.detail = detail,
                                    !.exts = extensions,
                                    !.handler = lookupHandler(problemHandlers, title)]]
    /\ w' = [w EXCEPT ![g] = NewWriter]
    /\ UNCHANGED <<URL, mux, problemHandlers, reg, hist, serving>>

\* w.WriteHeader(status)
ErrorWriteHeader(g) ==
    /\ call[g].pc = "lookup"
    /\ w' = [w EXCEPT ![g] = WriteHeader(w[g], call[g].status)]
    /\ call' = [call EXCEPT ![g].pc = "header"]
    /\ UNCHANGED <<URL, mux, problemHandlers, reg, hist, serving>>

\* w.Header().Set("Content-Type", "application/problem+json; charset=utf-8")
ErrorSetHeader(g) ==
    /\ call[g].pc = "header"
    /\ w' = [w EXCEPT ![g] = HeaderSet(w[g], "Content-Type", ProblemJSON)]
    /\ call' = [call EXCEPT ![g].pc = "encode"]
    /\ UNCHANGED <<URL, mux, problemHandlers, reg, hist, serving>>

\* encoder.Encode(problem)
ErrorEncode(g) ==
    /\ call[g].pc = "encode"
    /\ w' = [w EXCEPT ![g] =
                Encode(w[g], problemOf(call[g].handler, call[g].title, call[g].status,
                                       call[g].detail, call[g].exts))]
    /\ call' = [call EXCEPT ![g].pc = "done"]
    /\ UNCHANGED <<URL, mux, problemHandlers, reg, hist, serving>>

NextConc ==
    \/ CanRegister(MaxRegsConc) /\ \E t \in Titles, html \in Pages : HtmlDocCall(t, html)
    \/ StartServing
    \/ \E g \in Goroutines :
          /\ serving /\ Idle(g)
          /\ \E t \in Titles, st \in Statuses, d \in Details, exts \in FewExts :
                ErrorLookup(g, t, st, d, exts)
    \/ \E g \in Goroutines : ErrorWriteHeader(g)
    \/ \E g \in Goroutines : ErrorSetHeader(g)
    \/ \E g \in Goroutines : ErrorEncode(g)
    \/ \E g \in Goroutines : serving /\ Finish(g)

SpecConc == Init /\ [][NextConc]_vars

----------------------------------------------------------------------------
(* Reading a response.                                                     *)

ReservedKeys == {"type", "title", "status", "detail"}

RECURSIVE valueEnd(_, _)
\* the position after the last fragment of the value that starts at i
valueEnd(body, i) ==
    IF i > Len(body) \/ body[i] \in {",", "\n"} THEN i
    ELSE valueEnd(body, i + 1)

RECURSIVE jsonMembersFrom(_, _)
\* the members of the written object from position i on: quoted key -> text
jsonMembersFrom(body, i) ==
    IF i > Len(body) THEN <<>>
    ELSE IF body[i] = "\n  "
         THEN LET e == valueEnd(body, i + 3)
              IN  (body[i + 1] :> SubSeq(body, i + 3, e - 1)) @@ jsonMembersFrom(body, e)
         ELSE jsonMembersFrom(body, i + 1)

\* the object a response body holds
JSONObject(body) == jsonMembersFrom(body, 1)

\* the object holds a member named key
JSONHas(obj, key) == jsonKey(key) \in DOMAIN obj

\* the JSON text of the member named key, <<>> when there is none
JSONGet(obj, key) == IF JSONHas(obj, key) THEN obj[jsonKey(key)] ELSE <<>>

JSONString(s) == jsonValue(GoString(s))
JSONNumber(n) == jsonValue(GoInt(n))

\* the value of the last extension of the list that is keyed key
LastValue(extensions, key) ==
    LET last == CHOOSE i \in 1..Len(extensions) :
                   /\ extensions[i].Key = key
                   /\ \A j \in (i + 1)..Len(extensions) : extensions[j].Key # key
    IN  extensions[last].Value

ExtKeys(extensions) == { extensions[i].Key : i \in 1..Len(extensions) }

\* goroutine g has run a whole Error call and its response is at hand
ErrorDone(g) == call[g].op = "Error" /\ call[g].pc = "done"

\* goroutine g has run a whole GET request
GetDone(g) == call[g].op = "GET" /\ call[g].pc = "done"

\* the title, status and detail of g's response object obj are the system's
SystemFields(g, obj, title) ==
    /\ JSONGet(obj, "title") = JSONString(title)
    /\ JSONGet(obj, "status") = JSONNumber(call[g].status)
    /\ JSONGet(obj, "detail") = JSONString(call[g].detail)

----------------------------------------------------------------------------
(* Claims.                                                                 *)

\* C1: an Error call for a registered title writes a body whose type is the
\* documentation URL computed at the title's last registration, whose
\* title, status and detail are the title and the call's arguments, and
\* in which each other extension key holds its last occurrence's value;
\* no extension overrides type, title, status or detail.
C1_RegisteredDispatch ==
    \A g \in Goroutines :
        ErrorDone(g) /\ call[g].title \in DOMAIN hist.docURL =>
            LET obj == JSONObject(w[g].body)
            IN  /\ JSONGet(obj, "type") = JSONString(hist.docURL[call[g].title])
                /\ SystemFields(g, obj, call[g].title)
                /\ \A k \in ExtKeys(call[g].exts) \ ReservedKeys :
                       JSONGet(obj, k) = jsonValue(LastValue(call[g].exts, k))
                /\ DOMAIN obj = { jsonKey(k) :
                                    k \in ReservedKeys \cup ExtKeys(call[g].exts) }

\* C1 witness: a registered title with a page, dispatched with an extension
\* keyed type and a repeated non-reserved key
C1_Witness ==
    /\ ErrorDone(Main)
    /\ call[Main].title \in DOMAIN hist.docURL
    /\ hist.docURL[call[Main].title] # <<>>
    /\ call[Main].exts = <<Ext("k", GoString(<<"v1">>)), Ext("type", Bogus)>>
    /\ JSONGet(JSONObject(w[Main].body), "type") # JSONString(<<"bogus">>)

\* C2: an Error call for a title that was never registered writes a body
\* without a usable type (absent or empty), with title, status and detail set
\* by the system, whatever the extensions.
C2_UnregisteredDispatch ==
    \A g \in Goroutines :
        ErrorDone(g) /\ call[g].title \notin DOMAIN hist.docURL =>
            /\ \/ ~JSONHas(JSONObject(w[g].body), "type")
               \/ JSONGet(JSONObject(w[g].body), "type") = JSONString(<<>>)
            /\ SystemFields(g, JSONObject(w[g].body), IF call[g].title = <<>> THEN StatusText(call[g].status)
                               ELSE call[g].title)

\* C3: an Error call for a title uses the documentation URL of the title's
\* most recent registration (empty when that one had no page), whatever was
\* registered for the title before and for other titles since.
C3_LastRegistrationWins ==
    \A g \in Goroutines :
        ErrorDone(g) /\ call[g].title \in DOMAIN hist.docURL =>
            /\ call[g].handler.docURL = hist.docURL[call[g].title]
            /\ JSONGet(JSONObject(w[g].body), "type") = JSONString(hist.docURL[call[g].title])

\* C3 witness: a title registered again with another documentation URL
\* than its first, then dispatched
C3_Witness ==
    /\ ErrorDone(Main)
    /\ call[Main].title \in DOMAIN hist.first
    /\ hist.first[call[Main].title] # hist.docURL[call[Main].title]

\* C4: a GET for /<percent-escaped T>.html, T registered at least once with
\* a page, is answered 200 with the page of T's most recent registration
\* that had one.
C4_PageServed ==
    \A g \in Goroutines : \A t \in DOMAIN hist.page :
        GetDone(g) /\ call[g].target = docRoute(t) =>
            w[g].status = 200 /\ w[g].body = hist.page[t]

\* C5: the documented Content-Type is in the header set committed with the
\* status line: application/problem+json with the call's status for Error,
\* text/html with 200 for a documentation page.
C5_ContentTypeSent ==
    \A g \in Goroutines :
        /\ ErrorDone(g) =>
              /\ w[g].status = call[g].status
              /\ "Content-Type" \in DOMAIN w[g].sent
              /\ w[g].sent["Content-Type"] = ProblemJSON
        /\ GetDone(g) /\ routePath(call[g].target) \in DOMAIN mux =>
              /\ w[g].status = 200
              /\ "Content-Type" \in DOMAIN w[g].sent
              /\ w[g].sent["Content-Type"] = TextHTML

\* the URL the claim C6 describes: the base with /<T escaped once>.html
\* joined to its path
JoinedOnce(base, title) ==
    LET u == Parse(base)
    IN  u.Scheme \o <<":", "/", "/">> \o u.Host \o Join(u.Path, docRoute(title))

\* C6: the documentation URL of a title registered with a page is the base
\* URL with /<T percent-escaped once>.html joined to its path.
C6_DocURLEscapedOnce ==
    \A t \in DOMAIN problemHandlers :
        problemHandlers[t].docURL # <<>> =>
            problemHandlers[t].docURL = JoinedOnce(URL, t)

\* C7: a TemplateDoc or Doc call that returns an error returns a nil handler
\* and leaves the handlers map and the route table as they were.
C7_FailedTemplateRegistersNothing ==
    reg.err =>
        /\ reg.ret = NoHandler
        /\ <<mux, problemHandlers>> = reg.before

\* C7 witness: a TemplateDoc call failed for a title that an earlier call
\* registered with a page
C7_Witness ==
    /\ reg.err
    /\ reg.op = "TemplateDoc"
    /\ reg.title \in DOMAIN problemHandlers
    /\ reg.title \in DOMAIN hist.page

\* C8: HtmlDoc and MarkdownDoc always return a handler, stored under the
\* title, and never panic.
C8_HtmlDocTotal ==
    reg.op \in {"HtmlDoc", "MarkdownDoc"} =>
        /\ ~reg.panicked
        /\ reg.ret # NoHandler
        /\ reg.title \in DOMAIN problemHandlers
        /\ problemHandlers[reg.title] = reg.ret

\* a step of an Error call
DispatchStep ==
    \E g \in Goroutines : call'[g] # call[g] /\ call'[g].op = "Error"

\* every finished Error call has the response it would have had alone
ResponsesIsolated ==
    \A g \in Goroutines :
        ErrorDone(g) =>
            w[g] = Error(problemHandlers, NewWriter, call[g].title, call[g].status,
                         call[g].detail, call[g].exts)

\* C9: the steps of Error calls leave the handlers map, the route table and
\* the base URL unchanged, and under any interleaving of concurrent Error
\* calls each call ends with the response it would get if it ran alone.
C9_DispatchReadOnly ==
    /\ [][DispatchStep => UNCHANGED <<URL, mux, problemHandlers>>]_vars
    /\ []ResponsesIsolated

\* C9 witness: one Error call has finished while another, for the same
\* unregistered title, is between its WriteHeader and its Encode
C9_Witness ==
    /\ serving
    /\ ErrorDone("g1")
    /\ call["g2"].op = "Error" /\ call["g2"].pc = "encode"
    /\ call["g1"].title = call["g2"].title
    /\ call["g1"].title \notin DOMAIN problemHandlers
    /\ DOMAIN problemHandlers # {}

\* C10: an Error call with the empty title takes the fallback path: its
\* body's title is the status text and it has no type field, also after a
\* registration under the empty title (stated for calls whose extensions
\* carry no type key, so that dispatch alone decides the type field).
C10_EmptyTitleFallback ==
    \A g \in Goroutines :
        ErrorDone(g) /\ call[g].title = <<>> /\ "type" \notin ExtKeys(call[g].exts) =>
            /\ call[g].handler = NoHandler
            /\ JSONGet(JSONObject(w[g].body), "title") = JSONString(StatusText(call[g].status))
            /\ ~JSONHas(JSONObject(w[g].body), "type")

====
